---- MODULE Spec2Model ----
(***************************************************************************)
(* Model of the pane layout tree of the editor, src/editor/documents.rs:   *)
(* the FileLayout enum and its operations span, line, len, find, get_atom, *)
(* get_atom_mut, get_all, get_all_mut, get, get_mut and move_to.           *)
(*                                                                         *)
(* Conventions.  Option<T> is a sequence: <<>> is None, <<x>> is Some(x).  *)
(* Vec<T> is a sequence; Rust's 0-based index i is position i + 1.  A      *)
(* Range<usize> a..b is [start |-> a, end |-> b] (half open).  A call that *)
(* can abort returns [panic |-> BOOLEAN, v |-> value].  A proportion (f64) *)
(* is a pair <<n, d>> standing for n / d with d a power of two, for which  *)
(* the f64 product with a small integer is exact.                          *)
(***************************************************************************)
EXTENDS Integers, Sequences, FiniteSets, TLC

VARIABLES tree, term, frame, call, ret, panicked

vars == <<tree, term, frame, call, ret, panicked>>

(***************************************************************************)
(* Bounds of the model.                                                    *)
(***************************************************************************)
\* weight (split nodes + leaves + file containers) of a tree with contents
MaxWeight == 5
\* nodes (split nodes + leaves) of a tree checked for its geometry
MaxNodes == 5
\* largest tab index handed to move_to
MaxPtr == 1
\* longest path handed to the path-addressed operations
MaxPathLen == 2
\* largest child index in such a path
MaxIdx == 1

(***************************************************************************)
(* Values.                                                                 *)
(***************************************************************************)
None == <<>>
Some(x) == <<x>>

\* usize::MAX, what 0 - 1 wraps to without overflow checks.  The value is
\* the largest integer of the checker, standing for 2^64 - 1: no computed
\* boundary comes near it.
USIZE_MAX == 2147483647

Ok(x) == [panic |-> FALSE, v |-> x]
Panic == [panic |-> TRUE, v |-> <<>>]

Range(a, b) == [start |-> a, end |-> b]
Size(w, h) == [w |-> w, h |-> h]

\* FileLayout
LayoutNone == [kind |-> "None"]
Atom(containers, ptr) == [kind |-> "Atom", containers |-> containers, ptr |-> ptr]
SideBySide(layouts) == [kind |-> "SideBySide", layouts |-> layouts]
TopToBottom(layouts) == [kind |-> "TopToBottom", layouts |-> layouts]

\* FileContainer: of the document only the file name (Option<String>) is
\* read by the tree; highlighter and file type are never inspected.
FileContainer(file_name) == [file_name |-> file_name]

\* the path of a divider entry: vec![42].repeat(100)
Sentinel == [i \in 1..100 |-> 42]

saturating_sub(a, b) == IF a >= b THEN a - b ELSE 0

\* (extent as f64 * props) as usize
Share(extent, props) == (extent * props[1]) \div props[2]

(***************************************************************************)
(* span.  oc is whether the build checks integer overflow (debug: `end -=  *)
(* 1` on 0 panics; release: it wraps to usize::MAX).                       *)
(***************************************************************************)
\* ShiftEnd without the cell reserved after a child that is not the last
ShiftEndNoGap(end, c, n, extent) == end + saturating_sub(extent, end)

\* the end of a child's range: its own end stretched to the extent for the
\* last child, one less for any other
ShiftEnd(end, c, n, extent) ==
    IF c = saturating_sub(n, 1)
    THEN end + saturating_sub(extent, end)
    ELSE IF end = 0 THEN USIZE_MAX ELSE end - 1

\* `end -= 1` overflows
Underflows(end, c, n) == c # saturating_sub(n, 1) /\ end = 0

\* the inner loop of the SideBySide arm over the spans of child c
SideBySideSubs(subs, c, n, at, size) ==
    [k \in 1..Len(subs) |->
        <<subs[k][1], subs[k][2],
          Range(at, ShiftEnd(subs[k][3].end, c, n, size.w))>>]

\* as TopToBottomSub, had the divider carried the path of the span it
\* is pushed for
TopToBottomSubOwnPath(sub, c, n, at, size) ==
    LET shifted == <<sub[1], Range(at, ShiftEnd(sub[2].end, c, n, size.h)), sub[3]>>
    IN  IF c = saturating_sub(n, 1)
        THEN <<shifted>>
        ELSE <<(<<sub[1], sub[2], sub[3]>>), shifted>>

\* what one span of child c adds to the result of the TopToBottom arm
TopToBottomSub(sub, c, n, at, size) ==
    LET shifted == <<sub[1], Range(at, ShiftEnd(sub[2].end, c, n, size.h)), sub[3]>>
    IN  IF c = saturating_sub(n, 1)
        THEN <<shifted>>
        ELSE <<(<<Sentinel, sub[2], sub[3]>>), shifted>>

RECURSIVE TopToBottomSubs(_, _, _, _, _)
TopToBottomSubs(subs, c, n, at, size) ==
    IF subs = <<>> THEN <<>>
    ELSE TopToBottomSub(Head(subs), c, n, at, size)
         \o TopToBottomSubs(Tail(subs), c, n, at, size)

RECURSIVE span(_, _, _, _)
RECURSIVE SideBySideFrom(_, _, _, _, _, _, _)
RECURSIVE TopToBottomFrom(_, _, _, _, _, _, _)

\* the loop of the SideBySide arm from child c (0-based) on
SideBySideFrom(layouts, idx, size, oc, c, at, result) ==
    IF c >= Len(layouts) THEN Ok(result)
    ELSE LET layout == layouts[c + 1][1]
             props == layouts[c + 1][2]
             this_size == Size(at + Share(size.w, props), size.h)
             r == span(layout, Append(idx, c), this_size, oc)
         IN  IF r.panic THEN Panic
             ELSE IF oc /\ \E k \in 1..Len(r.v) :
                               Underflows(r.v[k][3].end, c, Len(layouts))
             THEN Panic
             ELSE SideBySideFrom(layouts, idx, size, oc, c + 1, this_size.w,
                     result \o SideBySideSubs(r.v, c, Len(layouts), at, size))

\* the loop of the TopToBottom arm from child c (0-based) on
TopToBottomFrom(layouts, idx, size, oc, c, at, result) ==
    IF c >= Len(layouts) THEN Ok(result)
    ELSE LET layout == layouts[c + 1][1]
             props == layouts[c + 1][2]
             this_size == Size(size.w, at + Share(size.h, props))
             r == span(layout, Append(idx, c), this_size, oc)
         IN  IF r.panic THEN Panic
             ELSE IF oc /\ \E k \in 1..Len(r.v) :
                               Underflows(r.v[k][2].end, c, Len(layouts))
             THEN Panic
             ELSE TopToBottomFrom(layouts, idx, size, oc, c + 1, this_size.h,
                     result \o TopToBottomSubs(r.v, c, Len(layouts), at, size))

span(self, idx, size, oc) ==
    CASE self.kind = "None" -> Ok(<<>>)
      [] self.kind = "Atom" -> Ok(<< <<idx, Range(0, size.h), Range(0, size.w)>> >>)
      [] self.kind = "SideBySide" ->
            SideBySideFrom(self.layouts, idx, size, oc, 0, 0, <<>>)
      [] self.kind = "TopToBottom" ->
            TopToBottomFrom(self.layouts, idx, size, oc, 0, 0, <<>>)

(***************************************************************************)
(* line: the spans whose rows contain y, stably sorted as line 92 sorts.   *)
(***************************************************************************)
RangeContains(r, y) == r.start <= y /\ y < r.end

\* the key of sort_by's comparison
LineSortKey(a) == a[2].start

RECURSIVE StableInsert(_, _)
StableInsert(sorted, x) ==
    IF sorted = <<>> THEN <<x>>
    ELSE IF LineSortKey(Head(sorted)) <= LineSortKey(x)
         THEN <<Head(sorted)>> \o StableInsert(Tail(sorted), x)
         ELSE <<x>> \o sorted

RECURSIVE StableSort(_)
StableSort(s) ==
    IF s = <<>> THEN <<>>
    ELSE StableInsert(StableSort(SubSeq(s, 1, Len(s) - 1)), s[Len(s)])

line(y, spans) ==
    StableSort(SelectSeq(spans, LAMBDA e : RangeContains(e[2], y)))

(***************************************************************************)
(* len                                                                     *)
(***************************************************************************)
RECURSIVE len(_)
RECURSIVE SumLen(_)
\* layouts.iter().map(|(layout, _)| layout.len()).sum()
SumLen(layouts) ==
    IF layouts = <<>> THEN 0
    ELSE len(Head(layouts)[1]) + SumLen(Tail(layouts))

len(self) ==
    CASE self.kind = "None" -> 0
      [] self.kind = "Atom" -> Len(self.containers)
      [] self.kind = "SideBySide" -> SumLen(self.layouts)
      [] self.kind = "TopToBottom" -> SumLen(self.layouts)

(***************************************************************************)
(* find                                                                    *)
(***************************************************************************)
\* The absolute-path resolution service: the canonical absolute form of a
\* file name, or a failure (None): "a" resolves to "/a", any other name
\* does not resolve.
get_absolute_path(f) == IF f = "a" THEN Some("/a") ELSE None

\* Option::unwrap_or_default for Option<String>
unwrap_or_default(o) == IF o = None THEN "" ELSE o[1]

\* file_name.as_ref().map(|f| get_absolute_path(f).unwrap_or_default())
ResolvedName(container) ==
    IF container.file_name = None THEN None
    ELSE Some(unwrap_or_default(get_absolute_path(container.file_name[1])))

\* the scan of the Atom arm from container ptr (0-based) on
RECURSIVE AtomFind(_, _, _, _)
AtomFind(containers, idx, path, ptr) ==
    IF ptr >= Len(containers) THEN None
    ELSE IF ResolvedName(containers[ptr + 1]) = Some(path)
         THEN Some(<<idx, ptr>>)
         ELSE AtomFind(containers, idx, path, ptr + 1)

RECURSIVE find(_, _, _)
RECURSIVE FindFrom(_, _, _, _)
\* the recursive scan of the SideBySide and TopToBottom arms from child nth
FindFrom(layouts, idx, path, nth) ==
    IF nth >= Len(layouts) THEN None
    ELSE LET result == find(layouts[nth + 1][1], Append(idx, nth), path)
         IN  IF result # None THEN result
             ELSE FindFrom(layouts, idx, path, nth + 1)

find(self, idx, path) ==
    CASE self.kind = "None" -> None
      [] self.kind = "Atom" -> AtomFind(self.containers, idx, path, 0)
      [] self.kind = "SideBySide" -> FindFrom(self.layouts, idx, path, 0)
      [] self.kind = "TopToBottom" -> FindFrom(self.layouts, idx, path, 0)

(***************************************************************************)
(* Path-addressed access.  idx.remove(0) panics on an empty vector and     *)
(* layouts[subidx] panics when subidx is out of range.                     *)
(***************************************************************************)
\* `let subidx = idx.remove(0); layouts[subidx]` panics
DescentPanics(layouts, idx) == idx = <<>> \/ Head(idx) >= Len(layouts)

RECURSIVE get_atom(_, _)
get_atom(self, idx) ==
    CASE self.kind = "None" -> Ok(None)
      [] self.kind = "Atom" -> Ok(Some(<<self.containers, self.ptr>>))
      [] self.kind = "SideBySide" ->
            IF DescentPanics(self.layouts, idx) THEN Panic
            ELSE get_atom(self.layouts[Head(idx) + 1][1], Tail(idx))
      [] self.kind = "TopToBottom" ->
            IF DescentPanics(self.layouts, idx) THEN Panic
            ELSE get_atom(self.layouts[Head(idx) + 1][1], Tail(idx))

RECURSIVE get_atom_mut(_, _)
get_atom_mut(self, idx) ==
    CASE self.kind = "None" -> Ok(None)
      [] self.kind = "Atom" -> Ok(Some(<<self.containers, self.ptr>>))
      [] self.kind = "SideBySide" ->
            IF DescentPanics(self.layouts, idx) THEN Panic
            ELSE get_atom_mut(self.layouts[Head(idx) + 1][1], Tail(idx))
      [] self.kind = "TopToBottom" ->
            IF DescentPanics(self.layouts, idx) THEN Panic
            ELSE get_atom_mut(self.layouts[Head(idx) + 1][1], Tail(idx))

\* self.get_atom(idx).map_or(vec![], |(fcs, _)| fcs)
get_all(self, idx) ==
    LET r == get_atom(self, idx)
    IN  IF r.panic THEN Panic
        ELSE IF r.v = None THEN Ok(<<>>) ELSE Ok(r.v[1][1])

get_all_mut(self, idx) ==
    LET r == get_atom_mut(self, idx)
    IN  IF r.panic THEN Panic
        ELSE IF r.v = None THEN Ok(<<>>) ELSE Ok(r.v[1][1])

\* fcs.get(ptr)
VecGet(fcs, ptr) == IF ptr < Len(fcs) THEN Some(fcs[ptr + 1]) ELSE None

get(self, idx) ==
    LET r == get_atom(self, idx)
    IN  IF r.panic THEN Panic
        ELSE IF r.v = None THEN Ok(None)
        ELSE Ok(VecGet(r.v[1][1], r.v[1][2]))

get_mut(self, idx) ==
    LET r == get_atom_mut(self, idx)
    IN  IF r.panic THEN Panic
        ELSE IF r.v = None THEN Ok(None)
        ELSE Ok(VecGet(r.v[1][1], r.v[1][2]))

(***************************************************************************)
(* move_to: the tree after the call, or a panic.                           *)
(***************************************************************************)
\* SetPtr storing one past the index asked for
SetPtrNext(self, ptr) == [self EXCEPT !.ptr = ptr + 1]

\* SetPtr that forgets the assignment
SetPtrStale(self, ptr) == self

\* `*old_ptr = ptr`
SetPtr(self, ptr) == [self EXCEPT !.ptr = ptr]

RECURSIVE move_to(_, _, _)
\* MoveInto that descends into the first child whatever the path says
MoveIntoFirst(self, idx, ptr) ==
    IF DescentPanics(self.layouts, idx) THEN Panic
    ELSE LET r == move_to(self.layouts[1][1], Tail(idx), ptr)
         IN  IF r.panic THEN Panic
             ELSE Ok([self EXCEPT !.layouts[1][1] = r.v])

\* layouts[subidx].0.move_to(idx, ptr), in place
MoveInto(self, idx, ptr) ==
    IF DescentPanics(self.layouts, idx) THEN Panic
    ELSE LET r == move_to(self.layouts[Head(idx) + 1][1], Tail(idx), ptr)
         IN  IF r.panic THEN Panic
             ELSE Ok([self EXCEPT !.layouts[Head(idx) + 1][1] = r.v])

move_to(self, idx, ptr) ==
    CASE self.kind = "None" -> Ok(self)
      [] self.kind = "Atom" -> Ok(SetPtr(self, ptr))
      [] self.kind = "SideBySide" -> MoveInto(self, idx, ptr)
      [] self.kind = "TopToBottom" -> MoveInto(self, idx, ptr)

(***************************************************************************)
(* The trees and arguments the operations are applied to.                  *)
(***************************************************************************)
\* file names of the open documents: a file, and a name the resolution
\* service fails on; None is an unnamed buffer
FileNames == {None, Some("a"), Some("bad")}

Containers == {FileContainer(f) : f \in FileNames}

\* proportions of the children of a split
Proportions(geom) == IF geom THEN {<<1, 2>>, <<3, 4>>} ELSE {<<1, 2>>}

\* the leaves of weight w.  For the geometry every leaf weighs 1 and a tab
\* group holds one file; otherwise a tab group weighs 1 + its containers
\* and its active index is valid.
Leaves(w, geom) ==
    IF w = 1
    THEN {LayoutNone,
          IF geom THEN Atom(<<FileContainer(Some("a"))>>, 0) ELSE Atom(<<>>, 0)}
    ELSE IF geom THEN {}
    ELSE {Atom(cs, p) : cs \in [1..(w - 1) -> Containers], p \in 0..(w - 2)}

RECURSIVE Layouts(_, _)
RECURSIVE ChildSeqs(_, _)
\* the sequences of (child, proportion) of total weight m
ChildSeqs(m, geom) ==
    IF m = 0 THEN {<<>>}
    ELSE UNION {{<< <<t, p>> >> \o rest :
                    t \in Layouts(j, geom), p \in Proportions(geom),
                    rest \in ChildSeqs(m - j, geom)} : j \in 1..m}

\* the trees of weight w: a leaf, or a split of one or more children
Layouts(w, geom) ==
    Leaves(w, geom) \cup
    (IF w < 2 THEN {}
     ELSE UNION {{SideBySide(ls), TopToBottom(ls)} : ls \in ChildSeqs(w - 1, geom)})

ContentTrees == UNION {Layouts(w, FALSE) : w \in 1..MaxWeight}
GeomTrees == UNION {Layouts(n, TRUE) : n \in 1..MaxNodes}

\* terminal sizes for the geometry: degenerate, tiny, and two real ones
GeomSizes == {Size(0, 0), Size(2, 2), Size(16, 8), Size(80, 24)}

\* paths handed to the path-addressed operations
Paths == UNION {[1..n -> 0..MaxIdx] : n \in 0..MaxPathLen}

\* starting paths and queries handed to find
Starts == {<<>>, <<1>>}
Queries == {"", "/a", "a"}

Call(op, idx, ptr, path, y) ==
    [op |-> op, idx |-> idx, ptr |-> ptr, path |-> path, y |-> y]

(***************************************************************************)
(* The state: the tree, the terminal size, the span list of the current    *)
(* frame, the last call with what it returned, and whether the process     *)
(* has aborted.                                                            *)
(***************************************************************************)
Start ==
    /\ frame = <<>>
    /\ call = Call("new", <<>>, 0, "", 0)
    /\ ret = None
    /\ panicked = FALSE

Init ==
    /\ tree \in ContentTrees
    /\ term = Size(8, 4)
    /\ Start

InitGeom ==
    /\ tree \in GeomTrees
    /\ term \in GeomSizes
    /\ Start

\* a call that reads the tree: r is [panic, v]
Returns(c, r) ==
    /\ call' = c
    /\ panicked' = r.panic
    /\ ret' = r.v
    /\ UNCHANGED <<tree, term>>

Span ==
    /\ ~panicked
    /\ \E oc \in BOOLEAN :
          LET r == span(tree, <<>>, term, oc)
          IN  /\ Returns(Call("span", <<>>, 0, "", 0), r)
              /\ frame' = IF r.panic THEN frame ELSE r.v

Line ==
    /\ ~panicked
    /\ \E y \in 0..(term.h - 1) :
          Returns(Call("line", <<>>, 0, "", y), Ok(line(y, frame)))
    /\ UNCHANGED frame

LenCall ==
    /\ ~panicked
    /\ Returns(Call("len", <<>>, 0, "", 0), Ok(len(tree)))
    /\ UNCHANGED frame

Find ==
    /\ ~panicked
    /\ \E idx \in Starts, path \in Queries :
          Returns(Call("find", idx, 0, path, 0), Ok(find(tree, idx, path)))
    /\ UNCHANGED frame

GetAtom ==
    /\ ~panicked
    /\ \E idx \in Paths : Returns(Call("get_atom", idx, 0, "", 0), get_atom(tree, idx))
    /\ UNCHANGED frame

GetAtomMut ==
    /\ ~panicked
    /\ \E idx \in Paths :
          Returns(Call("get_atom_mut", idx, 0, "", 0), get_atom_mut(tree, idx))
    /\ UNCHANGED frame

GetAll ==
    /\ ~panicked
    /\ \E idx \in Paths : Returns(Call("get_all", idx, 0, "", 0), get_all(tree, idx))
    /\ UNCHANGED frame

GetAllMut ==
    /\ ~panicked
    /\ \E idx \in Paths :
          Returns(Call("get_all_mut", idx, 0, "", 0), get_all_mut(tree, idx))
    /\ UNCHANGED frame

Get ==
    /\ ~panicked
    /\ \E idx \in Paths : Returns(Call("get", idx, 0, "", 0), get(tree, idx))
    /\ UNCHANGED frame

GetMut ==
    /\ ~panicked
    /\ \E idx \in Paths : Returns(Call("get_mut", idx, 0, "", 0), get_mut(tree, idx))
    /\ UNCHANGED frame

MoveTo ==
    /\ ~panicked
    /\ \E idx \in Paths, ptr \in 0..MaxPtr :
          LET r == move_to(tree, idx, ptr)
          IN  /\ call' = Call("move_to", idx, ptr, "", 0)
              /\ panicked' = r.panic
              /\ tree' = IF r.panic THEN tree ELSE r.v
              /\ ret' = None
    /\ UNCHANGED <<term, frame>>

Next ==
    \/ Span
    \/ Line
    \/ LenCall
    \/ Find
    \/ GetAtom
    \/ GetAtomMut
    \/ GetAll
    \/ GetAllMut
    \/ Get
    \/ GetMut
    \/ MoveTo

Spec == Init /\ [][Next]_vars

\* the render pass alone, over the trees and sizes of the geometry
NextGeom ==
    \/ Span
    \/ Line
    \/ LenCall

SpecGeom == InitGeom /\ [][NextGeom]_vars

(***************************************************************************)
(* Vocabulary of the properties: the tab groups of a tree by path.         *)
(***************************************************************************)
IsSplit(t) == t.kind \in {"SideBySide", "TopToBottom"}

\* the child-index chains from the root to the tab groups of t
RECURSIVE AtomPaths(_)
AtomPaths(t) ==
    CASE t.kind = "None" -> {}
      [] t.kind = "Atom" -> {<<>>}
      [] OTHER -> UNION {{<<c - 1>> \o q : q \in AtomPaths(t.layouts[c][1])} :
                            c \in 1..Len(t.layouts)}

\* the node a child-index chain of t leads to
RECURSIVE NodeAt(_, _)
NodeAt(t, q) ==
    IF q = <<>> THEN t ELSE NodeAt(t.layouts[Head(q) + 1][1], Tail(q))

\* some split met on the descent along idx cannot consume a path element
RECURSIVE Unconsumable(_, _)
Unconsumable(t, idx) ==
    /\ IsSplit(t)
    /\ \/ idx = <<>>
       \/ Head(idx) >= Len(t.layouts)
       \/ Unconsumable(t.layouts[Head(idx) + 1][1], Tail(idx))

\* the part of idx the descent consumes before it ends, at a leaf or at a
\* split that cannot consume the next element
RECURSIVE Consumed(_, _)
Consumed(t, idx) ==
    IF IsSplit(t) /\ idx # <<>> /\ Head(idx) < Len(t.layouts)
    THEN <<Head(idx)>> \o Consumed(t.layouts[Head(idx) + 1][1], Tail(idx))
    ELSE <<>>

\* the node the descent along idx ends at
Terminus(t, idx) == NodeAt(t, Consumed(t, idx))

\* the tree with every active index reset
RECURSIVE ErasePtr(_)
ErasePtr(t) ==
    CASE t.kind = "None" -> t
      [] t.kind = "Atom" -> [t EXCEPT !.ptr = 0]
      [] OTHER -> [t EXCEPT !.layouts =
                      [c \in 1..Len(t.layouts) |->
                          <<ErasePtr(t.layouts[c][1]), t.layouts[c][2]>>]]

\* every tab group with containers has its active index among them
AllPtrValid(t) ==
    \A q \in AtomPaths(t) :
        LET a == NodeAt(t, q)
        IN  a.containers # <<>> => a.ptr < Len(a.containers)

\* no Empty node anywhere in t
RECURSIVE NoEmpty(_)
NoEmpty(t) ==
    CASE t.kind = "None" -> FALSE
      [] t.kind = "Atom" -> TRUE
      [] OTHER -> \A c \in 1..Len(t.layouts) : NoEmpty(t.layouts[c][1])

\* a range end that came from 0 - 1 wrapping around
Wrapped(x) == x > USIZE_MAX - 100

AddressedReads ==
    {"get_atom", "get_atom_mut", "get", "get_mut", "get_all", "get_all_mut"}

(***************************************************************************)
(* C1.  line(y, spans) returns its entries in ascending order of column   *)
(* range start: of two consecutive entries the first starts no further    *)
(* right than the second.                                                  *)
(***************************************************************************)
C1_LineAscendingColumns ==
    call.op = "line" =>
        \A k \in 1..(Len(ret) - 1) : ret[k][3].start <= ret[k + 1][3].start

(***************************************************************************)
(* C2.  Path-addressed access fails closed: when a split on the descent   *)
(* cannot consume a path element, the get operations return None (an      *)
(* empty list for get_all and get_all_mut) and neither they nor move_to   *)
(* abort the process.                                                      *)
(***************************************************************************)
C2_AddressingFailsClosed ==
    (/\ call.op \in AddressedReads \cup {"move_to"}
     /\ Unconsumable(tree, call.idx))
    => /\ ~panicked
       /\ call.op \in AddressedReads => ret = <<>>

(***************************************************************************)
(* C3.  span is total: for every tree and every size, zero extents        *)
(* included, it returns without aborting and without arithmetic           *)
(* underflow, and with a zero width (height) every column (row) range is  *)
(* empty.                                                                  *)
(***************************************************************************)
C3_SpanTotal ==
    call.op = "span" =>
        /\ ~panicked
        /\ \A k \in 1..Len(ret) :
              /\ ~Wrapped(ret[k][2].end) /\ ~Wrapped(ret[k][3].end)
              /\ term.w = 0 => ret[k][3].start = ret[k][3].end
              /\ term.h = 0 => ret[k][2].start = ret[k][2].end

(***************************************************************************)
(* C4.  At a Side-by-Side root given width W, the column ranges of the    *)
(* entries of different children do not overlap, the children start at    *)
(* strictly increasing columns beginning at 0, exactly one column is left *)
(* between one child and the next, and the last child ends at W; the same *)
(* for the rows of a Top-to-Bottom root and H.  Stated for trees without  *)
(* Empty nodes and for calls in which no subtraction underflowed.         *)
(***************************************************************************)
\* the range of entry e along the axis the root splits
AxisRange(e) == IF tree.kind = "SideBySide" THEN e[3] ELSE e[2]
AxisExtent == IF tree.kind = "SideBySide" THEN term.w ELSE term.h

\* the entries of ret that belong to the tab groups under child c (0-based)
ChildEntries(c) ==
    {k \in 1..Len(ret) : ret[k][1] # Sentinel /\ ret[k][1][1] = c}

ChildLo(c) ==
    CHOOSE x \in {AxisRange(ret[k]).start : k \in ChildEntries(c)} :
        \A k \in ChildEntries(c) : x <= AxisRange(ret[k]).start
ChildHi(c) ==
    CHOOSE x \in {AxisRange(ret[k]).end : k \in ChildEntries(c)} :
        \A k \in ChildEntries(c) : x >= AxisRange(ret[k]).end

C4_ChildrenTileExtent ==
    (/\ call.op = "span"
     /\ ~panicked
     /\ IsSplit(tree)
     /\ NoEmpty(tree)
     /\ \A k \in 1..Len(ret) : ~Wrapped(ret[k][2].end) /\ ~Wrapped(ret[k][3].end))
    => LET n == Len(tree.layouts)
       IN  /\ ChildLo(0) = 0
           /\ ChildHi(n - 1) = AxisExtent
           /\ \A c \in 0..(n - 2) :
                 /\ ChildLo(c) < ChildLo(c + 1)
                 /\ ChildHi(c) + 1 = ChildLo(c + 1)
           /\ \A c, d \in 0..(n - 1) :
                 c < d => \A i \in ChildEntries(c), j \in ChildEntries(d) :
                             AxisRange(ret[i]).end <= AxisRange(ret[j]).start

(***************************************************************************)
(* C5.  Every tab group with a non-empty container sequence has an active *)
(* index below its container count, in every state reached from a tree    *)
(* with valid active indices by any sequence of operations.                *)
(***************************************************************************)
C5_ActiveIndexAlwaysValid == AllPtrValid(tree)

\* the new index of a move_to call is among the containers of the tab
\* group the path addresses, when that group has containers
MoveIndexInRange(t, c) ==
    (c.op = "move_to" /\ ~Unconsumable(t, c.idx)) =>
        LET a == Terminus(t, c.idx)
        IN  (a.kind = "Atom" /\ a.containers # <<>>) => c.ptr < Len(a.containers)

\* C5 as amended: the active indices are valid at the start, and an
\* operation keeps them valid provided a move_to is handed an index into
\* the containers of the addressed group.
C5_ValidMoveKeepsIndexValid ==
    /\ AllPtrValid(tree)
    /\ [][(AllPtrValid(tree) /\ MoveIndexInRange(tree, call')) => AllPtrValid(tree')]_vars

C5_Witness ==
    /\ call.op = "move_to"
    /\ ~panicked
    /\ call.ptr = 1
    /\ call.idx # <<>>
    /\ Terminus(tree, call.idx).kind = "Atom"
    /\ Len(Terminus(tree, call.idx).containers) = 2
    /\ Terminus(tree, call.idx).ptr = 1
    /\ AllPtrValid(tree)

(***************************************************************************)
(* C6.  After move_to(path, i), for a path addressing a tab group T and   *)
(* i an index into T's containers, get(path) returns the container that   *)
(* was at position i of T and get_atom(path) reports active index i.      *)
(***************************************************************************)
C6_MoveToThenGet ==
    [][(/\ call'.op = "move_to"
        /\ ~panicked'
        /\ ~Unconsumable(tree, call'.idx)
        /\ Terminus(tree, call'.idx).kind = "Atom"
        /\ call'.ptr < Len(Terminus(tree, call'.idx).containers))
       => LET T == Terminus(tree, call'.idx)
          IN  /\ get(tree', call'.idx) = Ok(Some(T.containers[call'.ptr + 1]))
              /\ get_atom(tree', call'.idx) = Ok(Some(<<T.containers, call'.ptr>>))]_vars

C6_Witness ==
    /\ call.op = "move_to"
    /\ ~panicked
    /\ call.ptr = 1
    /\ Len(call.idx) = 1
    /\ Terminus(tree, call.idx).kind = "Atom"
    /\ Len(Terminus(tree, call.idx).containers) = 2
    /\ Terminus(tree, call.idx).containers[1] # Terminus(tree, call.idx).containers[2]
    /\ get(tree, call.idx) = Ok(Some(Terminus(tree, call.idx).containers[2]))

(***************************************************************************)
(* C7.  move_to changes nothing but the active index of the tab group the *)
(* path addresses: shape, proportions and container sequences stay, every *)
(* other tab group keeps its active index, len() keeps its value, and a   *)
(* descent that ends at an Empty node leaves the whole tree as it was.    *)
(***************************************************************************)
C7_MoveToFrame ==
    [][(call'.op = "move_to" /\ ~panicked')
       => /\ ErasePtr(tree') = ErasePtr(tree)
          /\ \A q \in AtomPaths(tree) :
                q # Consumed(tree, call'.idx) => NodeAt(tree', q) = NodeAt(tree, q)
          /\ len(tree') = len(tree)
          /\ Terminus(tree, call'.idx).kind = "None" => tree' = tree]_vars

C7_Witness ==
    /\ call.op = "move_to"
    /\ ~panicked
    /\ call.idx = <<1>>
    /\ call.ptr = 1
    /\ Cardinality(AtomPaths(tree)) = 2
    /\ NodeAt(tree, <<1>>).kind = "Atom"
    /\ NodeAt(tree, <<1>>).ptr = 1
    /\ NodeAt(tree, <<0>>).kind = "Atom"
    /\ NodeAt(tree, <<0>>).ptr = 0
    /\ len(tree) = 2

(***************************************************************************)
(* C8.  find(start, p) returns None exactly when no container of the tree *)
(* resolves to p, and otherwise start followed by the child indices of    *)
(* the first tab group, depth first in child order, that holds a          *)
(* container resolving to p, with the smallest index of such a container. *)
(***************************************************************************)
\* the resolution service turns the container's file name into p
ResolvesTo(container, p) ==
    /\ container.file_name # None
    /\ get_absolute_path(container.file_name[1]) = Some(p)

\* the positions, within tab group a, of the containers resolving to p
MatchesIn(a, p) == {k \in 1..Len(a.containers) : ResolvesTo(a.containers[k], p)}

\* depth-first order of two child-index chains to different leaves
Before(q, r) ==
    \E i \in 1..Len(q) :
        /\ i <= Len(r)
        /\ q[i] < r[i]
        /\ \A j \in 1..(i - 1) : q[j] = r[j]

FirstMatch(t, start, p) ==
    LET M == {q \in AtomPaths(t) : MatchesIn(NodeAt(t, q), p) # {}}
    IN  IF M = {} THEN None
        ELSE LET q == CHOOSE x \in M : \A r \in M \ {x} : Before(x, r)
                 K == MatchesIn(NodeAt(t, q), p)
                 k == CHOOSE x \in K : \A z \in K : x <= z
             IN  Some(<<start \o q, k - 1>>)

C8_FindFirstMatch ==
    call.op = "find" => ret = FirstMatch(tree, call.idx, call.path)

(***************************************************************************)
(* C9.  find never returns a container without a file name or with a file *)
(* name the resolution service fails on, whatever the query, the empty    *)
(* string included.                                                        *)
(***************************************************************************)
C9_UnresolvedNeverFound ==
    (call.op = "find" /\ ret # None) =>
        LET q == SubSeq(ret[1][1], Len(call.idx) + 1, Len(ret[1][1]))
            container == NodeAt(tree, q).containers[ret[1][2] + 1]
        IN  /\ container.file_name # None
            /\ get_absolute_path(container.file_name[1]) # None

(***************************************************************************)
(* C10.  A Top-to-Bottom root of two tab groups with proportions 0.5 and  *)
(* 0.5 at size 80 x 24 yields exactly three entries: path [0] with rows   *)
(* 0..11, path [1] with rows 12..23, and one divider with the sentinel    *)
(* path whose rows cover the boundary row 11; all columns are 0..80.      *)
(***************************************************************************)
Scenario ==
    TopToBottom(<< <<Atom(<<FileContainer(Some("a"))>>, 0), <<1, 2>> >>,
                   <<Atom(<<FileContainer(Some("a"))>>, 0), <<1, 2>> >> >>)

ScenarioSpanned ==
    call.op = "span" /\ tree = Scenario /\ term = Size(80, 24)

\* ret is the two tab group entries, the second with rows 12..last, and
\* one divider over the boundary row
ScenarioYields(last) ==
    /\ ~panicked
    /\ Len(ret) = 3
    /\ \E k \in 1..3 : ret[k] = <<(<<0>>), Range(0, 11), Range(0, 80)>>
    /\ \E k \in 1..3 : ret[k] = <<(<<1>>), Range(12, last), Range(0, 80)>>
    /\ \E k \in 1..3 :
          /\ ret[k][1] = Sentinel
          /\ RangeContains(ret[k][2], 11)
          /\ ret[k][3] = Range(0, 80)

C10_ScenarioAsStated == ScenarioSpanned => ScenarioYields(23)

\* C10 as amended: the second tab group's rows are 12..24, up to the
\* bottom edge.
C10_ScenarioToBottomEdge == ScenarioSpanned => ScenarioYields(24)

C10_Witness == ScenarioSpanned /\ ~panicked /\ Len(ret) = 3

(***************************************************************************)
(* C11.  The entries of span([], size) whose path is not the divider path *)
(* correspond one to one to the tab groups of the tree: every tab group   *)
(* has exactly one entry, under its chain of child indices, no such chain *)
(* is the divider path, and get_atom on it returns that tab group's       *)
(* containers and active index.  Stated for calls that returned.          *)
(***************************************************************************)
\* the positions of ret holding entries that are not dividers
GroupEntries == {k \in 1..Len(ret) : ret[k][1] # Sentinel}

Dividers(v) == Cardinality({k \in 1..Len(v) : v[k][1] = Sentinel})

\* the divider entries the spans of the first c children of t hold
RECURSIVE ChildDividers(_, _)
ChildDividers(t, c) ==
    IF c = 0 THEN 0
    ELSE ChildDividers(t, c - 1)
         + Dividers(span(t.layouts[c][1], <<c - 1>>, term, FALSE).v)

\* the divider entries of ret the root added to those of its children
OwnDividers == Dividers(ret) - ChildDividers(tree, Len(tree.layouts))

C12_OneDividerPerNonLastChild ==
    (call.op = "span" /\ ~panicked /\ IsSplit(tree)) =>
        OwnDividers = IF tree.kind = "TopToBottom"
                      THEN Len(tree.layouts) - 1
                      ELSE 0

====
